---- MODULE Spec2Model ----
(***************************************************************************)
(* conduction.py: finite-difference relaxation of a scalar field on a      *)
(* square grid, swept over a range of iteration counts.                    *)
(*                                                                         *)
(* The script is modelled statement by statement: the outer for loop, the  *)
(* allocation and the four boundary assignments, the triple relaxation     *)
(* loop (one step per cell assignment), the sampling of the four points    *)
(* and the append to the record.  Cell values are IEEE-754 binary64        *)
(* numbers (numpy's default dtype): a non-negative double is the triple    *)
(* <<hi, lo, ex>> with 53-bit significand hi * 2^27 + lo and value         *)
(* (hi * 2^27 + lo) * 2^ex, and zero is <<0, 0, 0>>.  Addition rounds to   *)
(* nearest, ties to even, as the hardware does.  Plotting, console output  *)
(* and the contents of the text file written at the end do not touch the   *)
(* state and are left out.  Tprev is an auxiliary variable: a copy of the  *)
(* field taken when a sweep begins, which the properties compare against.  *)
(***************************************************************************)
EXTENDS Integers, Sequences, FiniteSets, TLC

(***************************************************************************)
(* Bounds.  The script sets lenX = 60, end = 500, d = 20; the model runs   *)
(* the same code on a smaller grid and a shorter sweep.  12 is the         *)
(* smallest grid whose four sample points are interior cells.              *)
(***************************************************************************)
lenX == 12
end == 4
d == 1

(* Program constants *)
start == 0
delta == 1
lenY == lenX
MantBits == 53

(* The script's own grid size, used only to evaluate the sample positions *)
RefLen == 60

(***************************************************************************)
(* Inputs: boundary values and interior guess (non-negative integers).     *)
(***************************************************************************)
Configs ==
  { [top |-> 100, bottom |-> 0,   left |-> 100, right |-> 100, guess |-> 0],
    [top |-> 100, bottom |-> 100, left |-> 100, right |-> 100, guess |-> 0],
    [top |-> 1,   bottom |-> 1,   left |-> 100, right |-> 1,   guess |-> 2],
    [top |-> 4,   bottom |-> 1,   left |-> 2,   right |-> 3,   guess |-> 7] }

(***************************************************************************)
(* binary64 arithmetic on non-negative values                              *)
(***************************************************************************)
LimbBits == (MantBits + 1) \div 2
LimbBase == 2^LimbBits
HiTop == 2^(MantBits - LimbBits)

Zero == <<0, 0, 0>>

\* int -> float64 conversion of a small non-negative integer (exact)
FromInt(k) ==
  IF k = 0 THEN Zero
  ELSE LET p == CHOOSE q \in 0..(MantBits - LimbBits - 1) : 2^q <= k /\ k < 2^(q+1)
       IN <<k * 2^(MantBits - LimbBits - 1 - p), 0, p - (MantBits - 1)>>

\* significand + 1 ulp, renormalised when it reaches 2^53
Inc(hi, lo, ex) ==
  IF lo + 1 < LimbBase THEN <<hi, lo + 1, ex>>
  ELSE IF hi + 1 < HiTop THEN <<hi + 1, 0, ex>>
  ELSE <<HiTop \div 2, 0, ex + 1>>

\* a + b in binary64, round to nearest, ties to even
Add(a, b) ==
  IF a = Zero THEN b
  ELSE IF b = Zero THEN a
  ELSE LET big   == IF a[3] >= b[3] THEN a ELSE b
           small == IF a[3] >= b[3] THEN b ELSE a
           dd    == big[3] - small[3]
       IN IF dd > MantBits THEN big
          ELSE LET lowShift == dd < LimbBits
                   ee    == dd - LimbBits
                   shHi  == IF lowShift THEN small[1] \div 2^dd ELSE 0
                   shLo  == IF lowShift
                            THEN (small[2] \div 2^dd) + (small[1] % 2^dd) * 2^(LimbBits - dd)
                            ELSE small[1] \div 2^ee
                   remHi == IF lowShift THEN 0 ELSE small[1] % 2^ee
                   remLo == IF lowShift THEN small[2] % 2^dd ELSE small[2]
                   halfHi == IF dd - 1 >= LimbBits THEN 2^(dd - 1 - LimbBits) ELSE 0
                   halfLo == IF dd >= 1 /\ dd - 1 < LimbBits THEN 2^(dd - 1) ELSE 0
                   cmp   == IF dd = 0 THEN -1
                            ELSE IF remHi # halfHi THEN (IF remHi > halfHi THEN 1 ELSE -1)
                            ELSE IF remLo # halfLo THEN (IF remLo > halfLo THEN 1 ELSE -1)
                            ELSE 0
                   sLo0  == big[2] + shLo
                   sLo   == sLo0 % LimbBase
                   sHi   == big[1] + shHi + (sLo0 \div LimbBase)
               IN IF sHi < HiTop
                  THEN IF cmp > 0 \/ (cmp = 0 /\ sLo % 2 = 1)
                       THEN Inc(sHi, sLo, big[3])
                       ELSE <<sHi, sLo, big[3]>>
                  ELSE LET qLo == (sLo \div 2) + (sHi % 2) * (LimbBase \div 2)
                           qHi == sHi \div 2
                       IN IF sLo % 2 = 1 /\ (remHi # 0 \/ remLo # 0 \/ qLo % 2 = 1)
                          THEN Inc(qHi, qLo, big[3] + 1)
                          ELSE <<qHi, qLo, big[3] + 1>>

\* 0.25 * a: exact, the exponent drops by two
Quarter(a) == IF a = Zero THEN Zero ELSE <<a[1], a[2], a[3] - 2>>

(***************************************************************************)
(* State                                                                   *)
(***************************************************************************)
VARIABLES
  pc,              \* position in the script
  Ttop, Tbottom, Tleft, Tright, Tguess,   \* boundary values and guess
  n, maxIter,      \* current iteration count of the sweep
  T,               \* the field
  iteration, i, j, \* relaxation loop indices
  Tprev,           \* auxiliary: the field as it was when the current sweep began
  concentrations,  \* the four sampled values
  data             \* the sweep record

vars == <<pc, Ttop, Tbottom, Tleft, Tright, Tguess, n, maxIter, T,
          iteration, i, j, Tprev, concentrations, data>>

Unset == -1
Unallocated == <<>>

Rows == 0..(lenX - 1)
Cols == 0..(lenY - 1)

\* mutant: the stop value leaves out end
RangeStopExclusive == end

\* range(start, end+1, d): the stop value of the sweep
RangeStop == end + 1

\* the value the for loop binds next
NextCount == IF n = Unset THEN start ELSE n + d

\* mutant: the sample circle has radius 0.45 * lenY
WormPosWide(lx, ly) ==
  [ A_x |-> (500 * lx - 450 * ly) \div 1000,
    A_y |-> ly \div 2,
    B_x |-> lx \div 2,
    B_y |-> (500 * ly + 450 * ly) \div 1000,
    C_x |-> (500 * lx + 450 * ly) \div 1000,
    C_y |-> ly \div 2,
    D_x |-> lx \div 2,
    D_y |-> (500 * ly - 450 * ly) \div 1000 ]

\* int(lenX/2 - 0.416*lenY) etc.: truncation of a non-negative value
WormPos(lx, ly) ==
  [ A_x |-> (500 * lx - 416 * ly) \div 1000,
    A_y |-> ly \div 2,
    B_x |-> lx \div 2,
    B_y |-> (500 * ly + 416 * ly) \div 1000,
    C_x |-> (500 * lx + 416 * ly) \div 1000,
    C_y |-> ly \div 2,
    D_x |-> lx \div 2,
    D_y |-> (500 * ly - 416 * ly) \div 1000 ]

worm == WormPos(lenX, lenY)

\* T[rows, cols] = v for the cells selected by the two slices (sets of indices)
SetSlice(F, rowSel, colSel, v) ==
  [r \in DOMAIN F |-> [c \in DOMAIN F[r] |->
      IF r \in rowSel /\ c \in colSel THEN v ELSE F[r][c]]]

\* mutant: the left column is stamped first instead of last
BoundaryOrderLeftFirst == <<"left", "top", "bottom", "right">>

\* the order in which the four boundary assignments are executed
BoundaryOrder == <<"top", "bottom", "right", "left">>

AfterStage(s) ==
  LET k == CHOOSE q \in 1..Len(BoundaryOrder) : BoundaryOrder[q] = s
  IN IF k < Len(BoundaryOrder) THEN BoundaryOrder[k + 1] ELSE "relax"

\* mutant: a double-buffered pass, the neighbours are read from the pre-sweep field
NewValueJacobi(F, r, c) ==
  LET P == IF r = 1 /\ c = 1 THEN F ELSE Tprev
  IN Quarter(Add(Add(Add(P[r + 1][c], P[r - 1][c]), P[r][c + 1]), P[r][c - 1]))

\* mutant: the sum is halved instead of quartered
NewValueHalf(F, r, c) ==
  LET q == Add(Add(Add(F[r + 1][c], F[r - 1][c]), F[r][c + 1]), F[r][c - 1])
  IN IF q = Zero THEN Zero ELSE <<q[1], q[2], q[3] - 1>>

\* 0.25 * (T[i+1][j] + T[i-1][j] + T[i][j+1] + T[i][j-1])
NewValue(F, r, c) ==
  Quarter(Add(Add(Add(F[r + 1][c], F[r - 1][c]), F[r][c + 1]), F[r][c - 1]))

\* mutant: the assignment targets the row above
WriteRowAbove(F, r, c, v) == [F EXCEPT ![r - 1][c] = v]

\* T[i, j] = v
Write(F, r, c, v) == [F EXCEPT ![r][c] = v]

\* mutant: one sweep too many
SweepsLeftInclusive(it, m) == it <= m

\* for iteration in range(0, maxIter): is there another sweep to run
SweepsLeft(it, m) == it < m

\* mutant: the field is indexed [x][y]
ConcentrationsXY(F) ==
  << F[worm.A_x][worm.A_y], F[worm.B_x][worm.B_y],
     F[worm.C_x][worm.C_y], F[worm.D_x][worm.D_y] >>

\* np.array([T[wormA_y,wormA_x], T[wormB_y,wormB_x], T[wormC_y,wormC_x], T[wormD_y,wormD_x]])
Concentrations(F) ==
  << F[worm.A_y][worm.A_x], F[worm.B_y][worm.B_x],
     F[worm.C_y][worm.C_x], F[worm.D_y][worm.D_x] >>

\* len(range(lo, hi, st)) for a positive step
RangeLen(lo, hi, st) == IF hi > lo THEN (hi - lo + st - 1) \div st ELSE 0

\* the field the initializer builds: fill, then top, bottom, right, left
FreshField ==
  [r \in Rows |-> [c \in Cols |->
     IF c < 1 THEN FromInt(Tleft)
     ELSE IF c >= lenX - 1 THEN FromInt(Tright)
     ELSE IF r < 1 THEN FromInt(Tbottom)
     ELSE IF r >= lenY - 1 THEN FromInt(Ttop)
     ELSE FromInt(Tguess)]]

\* the two inner loops as a function of the field: cells k, k+1, ... of the
\* row-major enumeration of range(1, lenX-1) x range(1, lenY-1); the rows
\* end when r + 1 is no longer a row of the field
RECURSIVE SweepFrom(_, _)
SweepFrom(F, k) ==
  LET r == 1 + (k \div (lenY - 2))
      c == 1 + (k % (lenY - 2))
  IN IF r + 1 \notin DOMAIN F THEN F
     ELSE SweepFrom(Write(F, r, c, NewValue(F, r, c)), k + 1)

\* the relaxation loop as a function of the field: m sweeps
RECURSIVE Relaxed(_, _)
Relaxed(F, m) == IF m <= 0 THEN F ELSE Relaxed(SweepFrom(F, 0), m - 1)

(***************************************************************************)
(* Initial state: the module-level assignments, data = []                  *)
(***************************************************************************)
Init ==
  /\ pc = "for"
  /\ \E cfg \in Configs :
       /\ Ttop = cfg.top
       /\ Tbottom = cfg.bottom
       /\ Tleft = cfg.left
       /\ Tright = cfg.right
       /\ Tguess = cfg.guess
  /\ n = Unset
  /\ maxIter = Unset
  /\ T = Unallocated
  /\ Tprev = Unallocated
  /\ iteration = 0
  /\ i = 0
  /\ j = 0
  /\ concentrations = <<>>
  /\ data = <<>>

(***************************************************************************)
(* Steps                                                                   *)
(***************************************************************************)
\* mutant: the iteration count stays at the end of the range
ForNextFixedIter ==
  /\ pc = "for"
  /\ NextCount < RangeStop
  /\ n' = NextCount
  /\ maxIter' = end
  /\ pc' = "alloc"
  /\ UNCHANGED <<Ttop, Tbottom, Tleft, Tright, Tguess, T, iteration, i, j,
                 Tprev, concentrations, data>>

\* for n in range(start, end+1, d): bind the next count, maxIter = n
ForNext ==
  /\ pc = "for"
  /\ NextCount < RangeStop
  /\ n' = NextCount
  /\ maxIter' = NextCount
  /\ pc' = "alloc"
  /\ UNCHANGED <<Ttop, Tbottom, Tleft, Tright, Tguess, T, iteration, i, j,
                 Tprev, concentrations, data>>

\* mutant: the field of the previous sweep step is kept
AllocKeep ==
  /\ pc = "alloc"
  /\ T' = IF T = Unallocated THEN [r \in Rows |-> [c \in Cols |-> FromInt(Tguess)]] ELSE T
  /\ pc' = BoundaryOrder[1]
  /\ UNCHANGED <<Ttop, Tbottom, Tleft, Tright, Tguess, n, maxIter, iteration,
                 i, j, Tprev, concentrations, data>>

\* mutant: the interior is filled with the top boundary value
AllocTop ==
  /\ pc = "alloc"
  /\ T' = [r \in Rows |-> [c \in Cols |-> FromInt(Ttop)]]
  /\ pc' = BoundaryOrder[1]
  /\ UNCHANGED <<Ttop, Tbottom, Tleft, Tright, Tguess, n, maxIter, iteration,
                 i, j, Tprev, concentrations, data>>

\* T = np.empty((lenX, lenY)); T.fill(Tguess)
Alloc ==
  /\ pc = "alloc"
  /\ T' = [r \in Rows |-> [c \in Cols |-> FromInt(Tguess)]]
  /\ pc' = BoundaryOrder[1]
  /\ UNCHANGED <<Ttop, Tbottom, Tleft, Tright, Tguess, n, maxIter, iteration,
                 i, j, Tprev, concentrations, data>>

\* The four boundary assignments.  After the last one the relaxation loops
\* start at iteration 0, cell (1, 1).
\* T[(lenY-1):, :] = Ttop
SetTop ==
  /\ pc = "top"
  /\ T' = SetSlice(T, {r \in Rows : r >= lenY - 1}, Cols, FromInt(Ttop))
  /\ pc' = AfterStage("top")
  /\ IF AfterStage("top") = "relax"
     THEN iteration' = 0 /\ i' = 1 /\ j' = 1 /\ Tprev' = T'
     ELSE UNCHANGED <<iteration, i, j, Tprev>>
  /\ UNCHANGED <<Ttop, Tbottom, Tleft, Tright, Tguess, n, maxIter,
                 concentrations, data>>

\* T[:1, :] = Tbottom
SetBottom ==
  /\ pc = "bottom"
  /\ T' = SetSlice(T, {r \in Rows : r < 1}, Cols, FromInt(Tbottom))
  /\ pc' = AfterStage("bottom")
  /\ IF AfterStage("bottom") = "relax"
     THEN iteration' = 0 /\ i' = 1 /\ j' = 1 /\ Tprev' = T'
     ELSE UNCHANGED <<iteration, i, j, Tprev>>
  /\ UNCHANGED <<Ttop, Tbottom, Tleft, Tright, Tguess, n, maxIter,
                 concentrations, data>>

\* T[:, (lenX-1):] = Tright
SetRight ==
  /\ pc = "right"
  /\ T' = SetSlice(T, Rows, {c \in Cols : c >= lenX - 1}, FromInt(Tright))
  /\ pc' = AfterStage("right")
  /\ IF AfterStage("right") = "relax"
     THEN iteration' = 0 /\ i' = 1 /\ j' = 1 /\ Tprev' = T'
     ELSE UNCHANGED <<iteration, i, j, Tprev>>
  /\ UNCHANGED <<Ttop, Tbottom, Tleft, Tright, Tguess, n, maxIter,
                 concentrations, data>>

\* T[:, :1] = Tleft
SetLeft ==
  /\ pc = "left"
  /\ T' = SetSlice(T, Rows, {c \in Cols : c < 1}, FromInt(Tleft))
  /\ pc' = AfterStage("left")
  /\ IF AfterStage("left") = "relax"
     THEN iteration' = 0 /\ i' = 1 /\ j' = 1 /\ Tprev' = T'
     ELSE UNCHANGED <<iteration, i, j, Tprev>>
  /\ UNCHANGED <<Ttop, Tbottom, Tleft, Tright, Tguess, n, maxIter,
                 concentrations, data>>

\* one execution of T[i, j] = 0.25 * (...) and the advance of the three loops
Update ==
  /\ pc = "relax"
  /\ SweepsLeft(iteration, maxIter)
  /\ T' = Write(T, i, j, NewValue(T, i, j))
  /\ Tprev' = IF i = 1 /\ j = 1 THEN T ELSE Tprev
  /\ IF j + delta < lenY - 1
     THEN /\ j' = j + delta
          /\ UNCHANGED <<i, iteration>>
     ELSE IF i + delta < lenX - 1
     THEN /\ i' = i + delta
          /\ j' = 1
          /\ UNCHANGED iteration
     ELSE /\ iteration' = iteration + 1
          /\ i' = 1
          /\ j' = 1
  /\ UNCHANGED <<pc, Ttop, Tbottom, Tleft, Tright, Tguess, n, maxIter,
                 concentrations, data>>

\* range(0, maxIter) is exhausted
EndRelax ==
  /\ pc = "relax"
  /\ ~SweepsLeft(iteration, maxIter)
  /\ pc' = "sample"
  /\ UNCHANGED <<Ttop, Tbottom, Tleft, Tright, Tguess, n, maxIter, T,
                 iteration, i, j, Tprev, concentrations, data>>

\* concentrations = np.array([...]).tolist()
Sample ==
  /\ pc = "sample"
  /\ concentrations' = Concentrations(T)
  /\ pc' = "append"
  /\ UNCHANGED <<Ttop, Tbottom, Tleft, Tright, Tguess, n, maxIter, T,
                 iteration, i, j, Tprev, data>>

\* data.append([n, concentrations])
AppendData ==
  /\ pc = "append"
  /\ data' = Append(data, <<n, concentrations>>)
  /\ pc' = "for"
  /\ UNCHANGED <<Ttop, Tbottom, Tleft, Tright, Tguess, n, maxIter, T,
                 iteration, i, j, Tprev, concentrations>>

\* the range is exhausted: np.savetxt("diffdata.txt", data, ...)
Save ==
  /\ pc = "for"
  /\ ~(NextCount < RangeStop)
  /\ pc' = "saved"
  /\ UNCHANGED <<Ttop, Tbottom, Tleft, Tright, Tguess, n, maxIter, T,
                 iteration, i, j, Tprev, concentrations, data>>

Next ==
  \/ ForNext
  \/ Alloc
  \/ SetTop
  \/ SetBottom
  \/ SetRight
  \/ SetLeft
  \/ Update
  \/ EndRelax
  \/ Sample
  \/ AppendData
  \/ Save

Spec == Init /\ [][Next]_vars

(***************************************************************************)
(* Helpers for the properties                                              *)
(***************************************************************************)
InteriorRows == 1..(lenX - 2)
InteriorCols == 1..(lenY - 2)

BoundaryStages == {"top", "bottom", "right", "left"}

\* the grid initializer has run and the field is in place
Stamped == T # Unallocated /\ pc \notin BoundaryStages

\* the value the initializer leaves in boundary cell (r, c)
BoundaryValue(r, c) ==
  IF c = 0 THEN FromInt(Tleft)
  ELSE IF c = lenY - 1 THEN FromInt(Tright)
  ELSE IF r = 0 THEN FromInt(Tbottom)
  ELSE FromInt(Ttop)

IsShaped(F) == DOMAIN F = Rows /\ \A r \in Rows : DOMAIN F[r] = Cols

\* a <= b on non-negative doubles
Leq(a, b) ==
  IF a = Zero THEN TRUE
  ELSE IF b = Zero THEN FALSE
  ELSE IF a[3] # b[3] THEN a[3] < b[3]
  ELSE IF a[1] # b[1] THEN a[1] < b[1]
  ELSE a[2] <= b[2]

Less(a, b) == Leq(a, b) /\ a # b

\* the boundary cells hold their initialized values and the field its shape
BoundaryHolds ==
  Stamped =>
    /\ IsShaped(T)
    /\ \A r \in Rows : \A c \in Cols :
         (r \notin InteriorRows \/ c \notin InteriorCols) => T[r][c] = BoundaryValue(r, c)

\* a step taken inside the relaxation loop changes interior cells only
SolverWritesInterior ==
  pc = "relax" =>
    /\ IsShaped(T')
    /\ \A r \in Rows : \A c \in Cols :
         T'[r][c] # T[r][c] => (r \in InteriorRows /\ c \in InteriorCols)

(***************************************************************************)
(* C1  Boundary invariance: once the initializer has run, every cell of    *)
(* row 0, row N-1, column 0 and column N-1 holds its initialized value in  *)
(* every later state (after each cell update, after any number of          *)
(* sweeps); a step of the relaxation loop changes interior cells only;     *)
(* and the field keeps its N x N shape.                                    *)
(***************************************************************************)
C1_BoundaryInvariance == [](BoundaryHolds) /\ [][SolverWritesInterior]_vars

\* two full sweeps done, the interior has moved, the boundary is still there
C1_Witness ==
  /\ pc = "sample"
  /\ iteration >= 2
  /\ T[1][1] # FromInt(Tguess)
  /\ T[0][1] = FromInt(Tbottom)
  /\ Tbottom # Tguess

\* between two sweeps: the sweep that just ended is the current one
SweepComplete == i = 1 /\ j = 1 /\ iteration >= 1

\* cell (r, c) has been assigned in the current sweep
Visited(r, c) ==
  \/ SweepComplete
  \/ r < i
  \/ (r = i /\ c < j)

(***************************************************************************)
(* C2  Each sweep is an in-place Gauss-Seidel pass in ascending row-major  *)
(* order.  In every state of the relaxation, a cell already visited in the *)
(* current sweep holds one quarter of the sum of (i+1, j) and (i, j+1) as  *)
(* they were when the sweep began and of (i-1, j) and (i, j-1) as they are *)
(* now (written earlier in this sweep, or boundary); a cell not yet        *)
(* visited still holds its value from the beginning of the sweep.  With    *)
(* (i, j) = (1, 1) and iteration >= 1 the sweep that just ended is the     *)
(* current one and every interior cell is visited.                         *)
(***************************************************************************)
C2_GaussSeidelSweep ==
  pc = "relax" =>
    \A r \in InteriorRows : \A c \in InteriorCols :
      IF Visited(r, c)
      THEN T[r][c] = Quarter(Add(Add(Add(Tprev[r + 1][c], T[r - 1][c]),
                                     Tprev[r][c + 1]), T[r][c - 1]))
      ELSE T[r][c] = Tprev[r][c]

\* a finished sweep whose result is not the Jacobi pass over the pre-sweep field
C2_Witness ==
  /\ pc = "relax"
  /\ SweepComplete
  /\ \E r \in InteriorRows : \E c \in InteriorCols :
       T[r][c] # NewValue(Tprev, r, c)

\* the four boundary values are equal
EqualBoundaries == Ttop = Tbottom /\ Tbottom = Tleft /\ Tleft = Tright

AllFourEqual(q) == q[1] = q[2] /\ q[2] = q[3] /\ q[3] = q[4]

(***************************************************************************)
(* C3  (as stated) With four equal boundary values the four sampled values *)
(* A, B, C, D are equal to each other after K sweeps, for every K >= 0.    *)
(***************************************************************************)
C3_SymmetryAnyK ==
  (pc = "append" /\ EqualBoundaries) => AllFourEqual(concentrations)

(***************************************************************************)
(* C3  (amended) With four equal boundary values the four sampled values   *)
(* are equal to each other when no sweep has been run (K = 0).             *)
(***************************************************************************)
C3_SymmetryAtZero ==
  (pc = "append" /\ EqualBoundaries /\ n = 0) => AllFourEqual(concentrations)

\* K = 0 sampled on the equal-boundary configuration whose guess differs from it
C3_Witness ==
  /\ pc = "append"
  /\ EqualBoundaries
  /\ Tguess # Ttop
  /\ n = 0
  /\ concentrations[1] = FromInt(Tguess)
  /\ concentrations[3] = FromInt(Tguess)

\* the four boundary values share a sign
SameSign ==
  \/ Ttop >= 0 /\ Tbottom >= 0 /\ Tleft >= 0 /\ Tright >= 0
  \/ Ttop <= 0 /\ Tbottom <= 0 /\ Tleft <= 0 /\ Tright <= 0

\* consecutive entries of the record, per sample column s
Steps == 1..(Len(data) - 1)

Rises(k, s) == Less(data[k][2][s], data[k + 1][2][s])
Falls(k, s) == Less(data[k + 1][2][s], data[k][2][s])

NoReversal(s) == ~ \E a \in Steps : \E b \in Steps : Rises(a, s) /\ Falls(b, s)

(***************************************************************************)
(* C4  (as stated) When the four boundary values share the same sign, the  *)
(* value recorded at each sample point is monotone in K: the sequence of   *)
(* recorded values never reverses direction, whatever the interior guess.  *)
(***************************************************************************)
C4_MonotoneAnyGuess == SameSign => \A s \in 1..4 : NoReversal(s)

\* the guess is not above (not below) any boundary value
GuessBelow ==
  Tguess <= Ttop /\ Tguess <= Tbottom /\ Tguess <= Tleft /\ Tguess <= Tright
GuessAbove ==
  Tguess >= Ttop /\ Tguess >= Tbottom /\ Tguess >= Tleft /\ Tguess >= Tright

(***************************************************************************)
(* C4  (amended) When the interior guess is not above any boundary value,  *)
(* the value recorded at each sample point never decreases as K grows;     *)
(* when it is not below any boundary value, it never increases.            *)
(***************************************************************************)
C4_MonotoneFromExtremeGuess ==
  /\ GuessBelow => \A s \in 1..4 : \A k \in Steps : ~Falls(k, s)
  /\ GuessAbove => \A s \in 1..4 : \A k \in Steps : ~Rises(k, s)

\* the whole record of a run that starts below its boundary values, all four rising
C4_Witness ==
  /\ pc = "saved"
  /\ GuessBelow
  /\ Len(data) >= 2
  /\ \A s \in 1..4 : Rises(Len(data) - 1, s)

\* the boundary values and guess of the script
Reference ==
  Ttop = 100 /\ Tbottom = 0 /\ Tleft = 100 /\ Tright = 100 /\ Tguess = 0

(***************************************************************************)
(* C5  Maximum principle on the reference configuration (top 100, bottom   *)
(* 0, left 100, right 100, guess 0): the sample points of the 60 x 60 grid *)
(* are (5,30), (30,54), (54,30), (30,5); every cell of the field stays in  *)
(* [0, 100]; and for every K >= 1 each recorded sample is strictly between *)
(* 0 and 100.                                                              *)
(***************************************************************************)
C5_MaximumPrinciple ==
  /\ WormPos(RefLen, RefLen) =
       [A_x |-> 5, A_y |-> 30, B_x |-> 30, B_y |-> 54,
        C_x |-> 54, C_y |-> 30, D_x |-> 30, D_y |-> 5]
  /\ (Reference /\ T # Unallocated) =>
       \A r \in Rows : \A c \in Cols :
         Leq(FromInt(0), T[r][c]) /\ Leq(T[r][c], FromInt(100))
  /\ (Reference /\ pc = "append" /\ n >= 1) =>
       \A s \in 1..4 :
         Less(FromInt(0), concentrations[s]) /\ Less(concentrations[s], FromInt(100))

\* the reference run sampled after the last count of the sweep
C5_Witness ==
  /\ Reference
  /\ pc = "append"
  /\ n >= 2
  /\ Less(concentrations[4], concentrations[1])

\* the four sample points are interior cells of an lx x ly field
IsInterior(w, lx, ly) ==
  /\ w.A_y \in 1..(lx - 2) /\ w.A_x \in 1..(ly - 2)
  /\ w.B_y \in 1..(lx - 2) /\ w.B_x \in 1..(ly - 2)
  /\ w.C_y \in 1..(lx - 2) /\ w.C_x \in 1..(ly - 2)
  /\ w.D_y \in 1..(lx - 2) /\ w.D_x \in 1..(ly - 2)

(***************************************************************************)
(* C6  K = 0 is a no-op: with iteration count 0 the relaxation loop        *)
(* performs no cell update, the field stays as the initializer built it,   *)
(* and the four samples equal the interior guess; no sample point of the   *)
(* grid (nor of the 60 x 60 grid of the script) is a boundary cell.        *)
(***************************************************************************)
C6_ZeroSweepsNoOp ==
  /\ IsInterior(worm, lenX, lenY)
  /\ IsInterior(WormPos(RefLen, RefLen), RefLen, RefLen)
  /\ (maxIter = 0 /\ pc \in {"relax", "sample", "append"}) =>
       /\ iteration = 0 /\ i = 1 /\ j = 1
       /\ \A r \in Rows : \A c \in Cols :
            T[r][c] = IF r \in InteriorRows /\ c \in InteriorCols
                      THEN FromInt(Tguess) ELSE BoundaryValue(r, c)
       /\ pc = "append" =>
            concentrations = <<FromInt(Tguess), FromInt(Tguess),
                               FromInt(Tguess), FromInt(Tguess)>>

\* the count 0 sampled on a configuration whose guess differs from every boundary value
C6_Witness ==
  /\ pc = "append"
  /\ n = 0
  /\ Tguess \notin {Ttop, Tbottom, Tleft, Tright}
  /\ concentrations[2] = FromInt(Tguess)

\* the last boundary assignment is done and no cell has been relaxed
JustInitialized == pc = "relax" /\ iteration = 0 /\ i = 1 /\ j = 1

(***************************************************************************)
(* C7  Grid initializer: when the four assignments are done, every         *)
(* interior cell holds the guess; the top row (row N-1) holds the top      *)
(* value and the bottom row (row 0) the bottom value except at their       *)
(* corners; the whole rightmost column holds the right value and the       *)
(* whole leftmost column the left value, corners included.                 *)
(***************************************************************************)
C7_InitializerResult ==
  JustInitialized =>
    /\ IsShaped(T)
    /\ \A r \in InteriorRows : \A c \in InteriorCols : T[r][c] = FromInt(Tguess)
    /\ \A c \in InteriorCols : T[lenX - 1][c] = FromInt(Ttop)
    /\ \A c \in InteriorCols : T[0][c] = FromInt(Tbottom)
    /\ \A r \in Rows : T[r][lenY - 1] = FromInt(Tright)
    /\ \A r \in Rows : T[r][0] = FromInt(Tleft)

\* initialized with four different boundary values: the corners show the order
C7_Witness ==
  /\ JustInitialized
  /\ Cardinality({Ttop, Tbottom, Tleft, Tright, Tguess}) = 5
  /\ T[lenX - 1][0] = FromInt(Tleft)
  /\ T[0][lenY - 1] = FromInt(Tright)

\* the record is a prefix of the sequence of counts of the range
RecordIsPrefix ==
  /\ RangeLen(0, 501, 20) = 26
  /\ Len(data) <= RangeLen(start, end + 1, d)
  /\ \A k \in 1..Len(data) :
       /\ data[k][1] = start + (k - 1) * d
       /\ data[k][1] <= end
       /\ Len(data[k][2]) = 4
  /\ pc \notin {"for", "saved"} => n = start + Len(data) * d
  /\ pc = "saved" => Len(data) = RangeLen(start, end + 1, d)

\* a step leaves the record alone or appends one entry
RecordOnlyGrows ==
  \/ data' = data
  \/ /\ Len(data') = Len(data) + 1
     /\ SubSeq(data', 1, Len(data)) = data

(***************************************************************************)
(* C8  Sweep record: the counts start, start+d, start+2d, ... not above    *)
(* end are visited in ascending order (26 of them for 0, 20, ..., 500);    *)
(* the k-th entry of the record carries the k-th count and four samples;   *)
(* when the script ends there is exactly one entry per count; and a step   *)
(* either leaves the record alone or appends one entry at its end.         *)
(***************************************************************************)
C8_RecordOrdering == [](RecordIsPrefix) /\ [][RecordOnlyGrows]_vars

\* the script has ended with the last count of the range recorded last
C8_Witness ==
  /\ pc = "saved"
  /\ Len(data) >= 2
  /\ data[Len(data)][1] + d > end
  /\ data[1][1] = start

(***************************************************************************)
(* C9  Sweep-step independence: the samples recorded for count n are those *)
(* of a field freshly built by the initializer and relaxed for exactly n   *)
(* sweeps; the relaxation ends after exactly n sweeps with that field.     *)
(***************************************************************************)
C9_StepIndependence ==
  /\ pc \in {"sample", "append"} =>
       /\ iteration = n
       /\ T = Relaxed(FreshField, n)
  /\ pc = "append" => concentrations = Concentrations(Relaxed(FreshField, n))
  /\ pc \in {"for", "saved"} =>
       \A k \in 1..Len(data) :
         data[k][2] = Concentrations(Relaxed(FreshField, data[k][1]))

\* a later step of the sweep, sampled after an earlier step left its relaxed field behind
C9_Witness ==
  /\ pc = "append"
  /\ n >= 2
  /\ Len(data) >= 1
  /\ data[Len(data)][2] # concentrations

\* A, C on the middle row left and right; B, D on the middle column top and bottom
Arrangement(w, lx, ly) ==
  /\ w.A_y = lx \div 2 /\ w.C_y = lx \div 2
  /\ w.B_x = ly \div 2 /\ w.D_x = ly \div 2
  /\ 1 <= w.A_x /\ w.A_x < ly \div 2 /\ ly \div 2 < w.C_x /\ w.C_x <= ly - 2
  /\ 1 <= w.D_y /\ w.D_y < lx \div 2 /\ lx \div 2 < w.B_y /\ w.B_y <= lx - 2

(***************************************************************************)
(* C10  Sampler axis convention: the four samples are read as T[y][x] in   *)
(* the order A, B, C, D, the convention of the initializer and the solver  *)
(* (row 0 bottom edge, row N-1 top edge, column 0 left edge, column N-1    *)
(* right edge).  A and C lie on the middle row, A on the side of the left  *)
(* edge and C on the side of the right edge; B and D lie on the middle     *)
(* column, B on the side of the top edge and D on the side of the bottom   *)
(* edge; all four are interior cells.                                      *)
(***************************************************************************)
C10_SamplerConvention ==
  /\ Arrangement(worm, lenX, lenY)
  /\ Arrangement(WormPos(RefLen, RefLen), RefLen, RefLen)
  /\ pc = "append" =>
       /\ concentrations = << T[worm.A_y][worm.A_x], T[worm.B_y][worm.B_x],
                              T[worm.C_y][worm.C_x], T[worm.D_y][worm.D_x] >>
       /\ T[worm.A_y][0] = FromInt(Tleft)
       /\ T[worm.C_y][lenY - 1] = FromInt(Tright)
       /\ T[lenX - 1][worm.B_x] = FromInt(Ttop)
       /\ T[0][worm.D_x] = FromInt(Tbottom)

\* sampled after a sweep on a field that is not its own transpose
C10_Witness ==
  /\ pc = "append"
  /\ n >= 1
  /\ T[worm.A_y][worm.A_x] # T[worm.A_x][worm.A_y]
  /\ concentrations[1] = T[worm.A_y][worm.A_x]
====
